---- MODULE Spec2Model ----
(***************************************************************************)
(* Model of the two-agent garment pipeline: FashionMaterialAnalyzer        *)
(* (Agent A), SustainabilityWebSearchTool, SustainabilityEstimator         *)
(* (Agent B) and CollaborativeAgentOrchestrator.                           *)
(*                                                                         *)
(* Values that cross the model boundary are JSON values, tagged by type:   *)
(*   [t |-> "num", v |-> 200]   a JSON number                              *)
(*   [t |-> "str", v |-> "x"]   a JSON string                              *)
(*   [t |-> "null"]             JSON null (Python None)                    *)
(*   [t |-> "list", v |-> <<...>>]  a JSON array                           *)
(*   [t |-> "obj", v |-> [k |-> ...]]  a JSON object (a Python dict)       *)
(* A model reply is [t |-> "text"] (text that is not the requested JSON),  *)
(* [t |-> "raise"] (the client raised) or a JSON object.                   *)
(***************************************************************************)
EXTENDS Integers, Sequences, FiniteSets, TLC

VARIABLES
    settings,          \* the cached Settings instance (config.get_settings)
    sut,               \* the object under use: analyzer, estimator, search tool or orchestrator
    ctor,              \* outcome of the last constructor call
    pc,                \* position of the current call
    entry,             \* which public method the caller invoked
    fashion_analysis,  \* the FashionAnalysis held by run / passed to estimate
    research_query,    \* the query handed to the search tool
    research_result,   \* the WebSearchResult returned by the search tool
    calls,             \* collaborator invocations made by the current call, in order
    replies,           \* what each of those invocations answered, in the same order
    network,           \* outbound requests to the search provider made by the current call
    result,            \* the value returned to the caller
    error,             \* the exception that reached the caller
    history            \* serializations returned by earlier runs of this orchestrator

vars == <<settings, sut, ctor, pc, entry, fashion_analysis, research_query,
          research_result, calls, replies, network, result, error, history>>

----------------------------------------------------------------------------
(* Bounds of the model *)

MaxComponents == 4

----------------------------------------------------------------------------
(* JSON values, optional values and outcomes *)

Null == [t |-> "null"]
Garbage == [t |-> "text"]
Raises == [t |-> "raise"]

\* Optional[...]: absent
None == [some |-> FALSE]

\* An exception: what caused it, the class first raised, the class the caller sees.
NoError == [cause |-> "none", origin |-> "none", kind |-> "none"]
Err(cause, origin, kind) == [cause |-> cause, origin |-> origin, kind |-> kind]

\* The outcome of a function: a raised exception or a returned value.
Fail(exc) == [ok |-> FALSE, e |-> exc]
Ok(x) == [ok |-> TRUE, v |-> x]

\* Optional[...]: present
Some(x) == [some |-> TRUE, v |-> x]

Num(n) == [t |-> "num", v |-> n]
Str(s) == [t |-> "str", v |-> s]
List(s) == [t |-> "list", v |-> s]
Obj(f) == [t |-> "obj", v |-> f]

\* Strings that Python's float() accepts, with the value it returns.
NumericStrings == [s \in {"12"} |-> 12]

----------------------------------------------------------------------------
(* Python conversions *)

\* float(x): numbers pass, numeric strings are parsed, other strings raise
\* ValueError, None raises TypeError.
Float(x) ==
    CASE x.t = "num" -> Ok(x.v)
      [] x.t = "str" -> IF x.v \in DOMAIN NumericStrings
                        THEN Ok(NumericStrings[x.v])
                        ELSE Fail(Err("bad_value", "ValueError", "ValueError"))
      [] OTHER -> Fail(Err("bad_value", "TypeError", "TypeError"))

\* str(x): strings pass, None becomes "None", numbers are printed.
PyStr(x) ==
    CASE x.t = "str" -> x.v
      [] x.t = "num" -> ToString(x.v)
      [] x.t = "null" -> "None"
      [] x.t = "list" /\ x.v = <<>> -> "[]"
      [] OTHER -> "<object>"

\* dict.get(key, default)
Get(d, key, default) == IF key \in DOMAIN d THEN d[key] ELSE default

\* Python truthiness of an Optional[str]: None and "" are falsy.
Truthy(x) == x.some /\ x.v # ""

----------------------------------------------------------------------------
(* Agent A: FashionMaterialAnalyzer *)

\* The keys of the analyzer's response schemas.
AnalyzerSchemaKeys == {"garment_summary", "components", "total_weight_grams"}

\* StructuredOutputParser.parse: the text must hold a JSON object with every
\* schema key present; anything else raises OutputParserException.  The
\* schema types are hints for the model and are not checked.
ParserParse(expected_keys, content) ==
    IF content.t = "obj" /\ expected_keys \subseteq DOMAIN content.v
    THEN Ok(content.v)
    ELSE Fail(Err("unparseable", "OutputParserException", "OutputParserException"))

\* The parser's exception let through as it is.
WrapParseFailure_Unwrapped(e) == e

\* except OutputParserException as exc: raise RuntimeError(...) from exc
WrapParseFailure(e) == Err(e.cause, e.origin, "RuntimeError")

\* MaterialComponent(name=str(..), percentage=float(..), weight_grams=float(..))
\* for one raw item; item.get on something that is not a dict raises
\* AttributeError.
MaterialComponent(item) ==
    IF item.t # "obj"
    THEN Fail(Err("bad_value", "AttributeError", "AttributeError"))
    ELSE LET name == PyStr(Get(item.v, "name", Str("")))
             percentage == Float(Get(item.v, "percentage", Num(0)))
             weight_grams == Float(Get(item.v, "weight_grams", Num(0)))
         IN  IF ~percentage.ok THEN Fail(percentage.e)
             ELSE IF ~weight_grams.ok THEN Fail(weight_grams.e)
             ELSE Ok([name |-> name, percentage |-> percentage.v,
                      weight_grams |-> weight_grams.v])

\* The list comprehension over components_raw: the first item that fails
\* raises; iterating None raises TypeError.
Components(components_raw) ==
    IF components_raw.t # "list"
    THEN Fail(Err("bad_value", "TypeError", "TypeError"))
    ELSE LET items == components_raw.v
             conv == [i \in 1..Len(items) |-> MaterialComponent(items[i])]
             bad == {i \in 1..Len(items) : ~conv[i].ok}
         IN  IF bad = {}
             THEN Ok([i \in 1..Len(items) |-> conv[i].v])
             ELSE Fail(conv[CHOOSE i \in bad : \A j \in bad : i <= j].e)

\* total_weight_grams = float(total_weight) if total_weight is not None else None
TotalWeight(parsed) ==
    LET total_weight == Get(parsed, "total_weight_grams", Null)
    IN  IF total_weight.t = "null" THEN Ok(None)
        ELSE LET f == Float(total_weight)
             IN  IF f.ok THEN Ok(Some(f.v)) ELSE Fail(f.e)

\* FashionMaterialAnalyzer.analyze, from the model's reply to the value
\* returned or the exception raised.
Analyze(content) ==
    IF content.t = "raise"
    THEN Fail(Err("model_call", "ProviderError", "ProviderError"))
    ELSE LET parsed == ParserParse(AnalyzerSchemaKeys, content)
         IN  IF ~parsed.ok THEN Fail(WrapParseFailure(parsed.e))
             ELSE LET components == Components(Get(parsed.v, "components", List(<<>>)))
                      total == TotalWeight(parsed.v)
                  IN  IF ~components.ok THEN Fail(components.e)
                      ELSE IF ~total.ok THEN Fail(total.e)
                      ELSE Ok([garment_summary |->
                                   PyStr(Get(parsed.v, "garment_summary", Str(""))),
                               components |-> components.v,
                               total_weight_grams |-> total.v])

----------------------------------------------------------------------------
(* SustainabilityWebSearchTool *)

DefaultK == 5

\* The text _disabled_search returns (the source sets TAVILY_API_KEY in
\* backquotes, which a TLA+ string cannot hold).
DisabledAdvisory ==
    "Web search is currently disabled. Provide TAVILY_API_KEY in the "
    \o "environment to enable live sustainability research."

\* _build_tool testing the key against None only, so that "" counts as a key.
BuildTool_NoneOnly(key) ==
    IF key.some THEN "TavilySearchResults" ELSE "disabled_web_search"

\* _build_tool: the provider tool when the key is truthy, else the fallback.
BuildTool(key) ==
    IF Truthy(key) THEN "TavilySearchResults" ELSE "disabled_web_search"

\* SustainabilityWebSearchTool.__init__
WebSearchTool(key) ==
    [class |-> "SustainabilityWebSearchTool", k |-> DefaultK,
     tavily_api_key |-> key, tool |-> BuildTool(key)]

\* What self._tool.run(query) returns: the fallback ignores the query and the
\* provider; the provider tool returns the provider's output.
ToolOutput(tool, query, provider_output) ==
    IF tool.tool = "disabled_web_search" THEN Str(DisabledAdvisory) ELSE provider_output

\* SustainabilityWebSearchTool.run
WebSearchResult(tool, query, provider_output) ==
    [query |-> query, raw_output |-> PyStr(ToolOutput(tool, query, provider_output))]

----------------------------------------------------------------------------
(* Agent B: SustainabilityEstimator *)

EstimatorSchemaKeys ==
    {"water_liters", "co2_kg", "energy_kwh", "methodology_notes", "research_context"}

QueryPrefix == "Lifecycle assessment water CO2 energy consumption for "

RECURSIVE Join(_, _)
\* sep.join(strings)
Join(strings, sep) ==
    IF strings = <<>> THEN ""
    ELSE IF Len(strings) = 1 THEN strings[1]
    ELSE strings[1] \o sep \o Join(Tail(strings), sep)

\* seq[:n]
Take(seq, n) == SubSeq(seq, 1, IF Len(seq) < n THEN Len(seq) ELSE n)

\* A query built from every component name, the [:3] cut left out.
BuildResearchQuery_NoCut(analysis) ==
    LET dominant_materials ==
            [i \in 1..Len(analysis.components) |-> analysis.components[i].name]
    IN  QueryPrefix \o Join(dominant_materials, ", ")

\* _build_research_query
BuildResearchQuery(analysis) ==
    LET dominant_materials ==
            [i \in 1..Len(analysis.components) |-> analysis.components[i].name]
    IN  QueryPrefix \o Join(Take(dominant_materials, 3), ", ")

\* The analysis_json dict handed to the prompt.
AnalysisJson(analysis) ==
    [garment_summary |-> analysis.garment_summary,
     components |-> [i \in 1..Len(analysis.components) |->
         [name |-> analysis.components[i].name,
          percentage |-> analysis.components[i].percentage,
          weight_grams |-> analysis.components[i].weight_grams]],
     total_weight_grams |-> analysis.total_weight_grams]

\* SustainabilityEstimator.estimate, from the model's reply to the value
\* returned or the exception raised.
Estimates(content) ==
    IF content.t = "raise"
    THEN Fail(Err("model_call", "ProviderError", "ProviderError"))
    ELSE LET parsed == ParserParse(EstimatorSchemaKeys, content)
         IN  IF ~parsed.ok THEN Fail(WrapParseFailure(parsed.e))
             ELSE LET water_liters == Float(Get(parsed.v, "water_liters", Num(0)))
                      co2_kg == Float(Get(parsed.v, "co2_kg", Num(0)))
                      energy_kwh == Float(Get(parsed.v, "energy_kwh", Num(0)))
                  IN  IF ~water_liters.ok THEN Fail(water_liters.e)
                      ELSE IF ~co2_kg.ok THEN Fail(co2_kg.e)
                      ELSE IF ~energy_kwh.ok THEN Fail(energy_kwh.e)
                      ELSE Ok([water_liters |-> water_liters.v,
                               co2_kg |-> co2_kg.v,
                               energy_kwh |-> energy_kwh.v,
                               methodology_notes |->
                                   PyStr(Get(parsed.v, "methodology_notes", Str(""))),
                               research_context |->
                                   PyStr(Get(parsed.v, "research_context", Str("")))])

----------------------------------------------------------------------------
(* Orchestrator *)

\* A response whose water estimate adds up over the orchestrator's earlier runs.
OrchestratedResponse_Accumulating(analysis, estimates) ==
    [fashion_analysis |-> analysis,
     sustainability_estimates |->
         [estimates EXCEPT !.water_liters = @ + Cardinality(history)]]

\* OrchestratedResponse(fashion_analysis=..., sustainability_estimates=...)
OrchestratedResponse(analysis, estimates) ==
    [fashion_analysis |-> analysis, sustainability_estimates |-> estimates]

\* dataclasses.asdict of a MaterialComponent
AsDict(component) ==
    [name |-> component.name,
     percentage |-> component.percentage,
     weight_grams |-> component.weight_grams]

\* OrchestratedResponse.to_dict
ToDict(response) ==
    [fashion_analysis |->
        [garment_summary |-> response.fashion_analysis.garment_summary,
         components |-> [i \in 1..Len(response.fashion_analysis.components) |->
                            AsDict(response.fashion_analysis.components[i])],
         total_weight_grams |-> response.fashion_analysis.total_weight_grams],
     sustainability_estimates |-> response.sustainability_estimates]

----------------------------------------------------------------------------
(* Construction *)

NoObject == [class |-> "none"]
NoCtor == [target |-> "none", needs_credential |-> FALSE, built |-> TRUE, raised |-> NoError]

\* A client passed in by the caller instead of one built from the settings.
InjectedClient == [class |-> "injected"]

\* ChatOpenAI(model=..., temperature=..., api_key=...)
ChatOpenAI(model, temperature, api_key) ==
    [class |-> "ChatOpenAI", model |-> model, temperature |-> temperature,
     api_key |-> api_key]

MissingCredential == Err("missing_credential", "RuntimeError", "RuntimeError")

\* __init__ testing the credential against None only, so that "" passes.
FashionMaterialAnalyzer_NoneOnly(llm) ==
    IF ~llm.some /\ ~settings.openai_api_key.some
    THEN Fail(MissingCredential)
    ELSE Ok([class |-> "FashionMaterialAnalyzer",
             llm |-> IF llm.some THEN llm.v
                     ELSE ChatOpenAI(settings.fashion_analyzer_model, "0",
                                     settings.openai_api_key)])

\* FashionMaterialAnalyzer.__init__(llm)
FashionMaterialAnalyzer(llm) ==
    IF ~llm.some /\ ~Truthy(settings.openai_api_key)
    THEN Fail(MissingCredential)
    ELSE Ok([class |-> "FashionMaterialAnalyzer",
             llm |-> IF llm.some THEN llm.v
                     ELSE ChatOpenAI(settings.fashion_analyzer_model, "0",
                                     settings.openai_api_key)])

\* SustainabilityEstimator.__init__(analysis_agent, search_tool=...)
SustainabilityEstimator(analysis_agent, search_tool) ==
    IF ~analysis_agent.some /\ ~Truthy(settings.openai_api_key)
    THEN Fail(MissingCredential)
    ELSE Ok([class |-> "SustainabilityEstimator",
             llm |-> IF analysis_agent.some THEN analysis_agent.v
                     ELSE ChatOpenAI(settings.sustainability_analyzer_model, "0.2",
                                     settings.openai_api_key),
             search_tool |-> IF search_tool.some THEN search_tool.v
                             ELSE WebSearchTool(settings.tavily_api_key)])

\* CollaborativeAgentOrchestrator.__init__(fashion_agent, sustainability_agent):
\* the analyzer is resolved first, then the estimator.
CollaborativeAgentOrchestrator(fashion_agent, sustainability_agent) ==
    LET fa == IF fashion_agent.some THEN Ok(fashion_agent.v)
              ELSE FashionMaterialAnalyzer(None)
        sa == IF sustainability_agent.some THEN Ok(sustainability_agent.v)
              ELSE SustainabilityEstimator(None, None)
    IN  IF ~fa.ok THEN Fail(fa.e)
        ELSE IF ~sa.ok THEN Fail(sa.e)
        ELSE Ok([class |-> "CollaborativeAgentOrchestrator",
                 fashion_agent |-> fa.v, sustainability_agent |-> sa.v])

----------------------------------------------------------------------------
(* Inputs the environment can supply *)

OpenAIKeys == {None, Some(""), Some("sk-test")}
TavilyKeys == {None, Some(""), Some("tvly-test")}

\* Settings: the two credentials and the two model names with their defaults.
Settings ==
    [tavily_api_key : TavilyKeys, openai_api_key : OpenAIKeys,
     fashion_analyzer_model : {"gpt-4o-mini"},
     sustainability_analyzer_model : {"gpt-4o-mini"}]

LlmArgs == {None, Some(InjectedClient)}
SearchToolArgs == {None} \cup {Some(WebSearchTool(k)) : k \in TavilyKeys}

\* Agents a caller can build beforehand and pass to a constructor.
AnalyzerArgs ==
    {None} \cup {Some(FashionMaterialAnalyzer(l).v) :
                    l \in {x \in LlmArgs : FashionMaterialAnalyzer(x).ok}}
EstimatorArgs ==
    {None} \cup {Some(SustainabilityEstimator(p[1], p[2]).v) :
                    p \in {q \in LlmArgs \X SearchToolArgs :
                              SustainabilityEstimator(q[1], q[2]).ok}}

ImageReferences == {"https://example.com/shirt.jpg"}
UserPrompts == {"", "Vintage denim"}
Queries == {"anything", ""}

Names == {"cotton", "wool"}

Item(n) == Obj([name |-> Str(n), percentage |-> Num(100), weight_grams |-> Num(200)])

\* Every list of 1..MaxComponents complete items.
NameLists == UNION {[1..n -> Names] : n \in 1..MaxComponents}
CompleteLists == {[i \in DOMAIN l |-> Item(l[i])] : l \in NameLists}

\* Items with a key missing, a value of another type, or no dict at all.
DefectiveItems ==
    {Obj([percentage |-> Num(100), weight_grams |-> Num(200)]),
     Obj([name |-> Str("cotton"), weight_grams |-> Num(200)]),
     Obj([name |-> Str("cotton"), percentage |-> Num(100)]),
     Obj([name |-> Str("cotton"), percentage |-> Str("abc"), weight_grams |-> Num(200)]),
     Obj([name |-> Str("cotton"), percentage |-> Str("12"), weight_grams |-> Num(200)]),
     Obj([name |-> Str("cotton"), percentage |-> Num(100), weight_grams |-> Null]),
     Obj([name |-> Null, percentage |-> Num(100), weight_grams |-> Num(200)]),
     Str("cotton")}
DefectiveLists ==
    {<<d>> : d \in DefectiveItems} \cup {<<Item("wool"), d>> : d \in DefectiveItems}

\* f restricted to the keys in K: a reply that leaves the other keys out.
Restrict(f, K) == [k \in K |-> f[k]]

\* Replies of the image model: text that is no JSON, a raised fault, the
\* complete object for every component list, and objects that vary the
\* summary, the total weight and the keys present.
AnalyzerReplies ==
    {Garbage, Raises}
    \cup {Obj([garment_summary |-> Str("Cotton T-shirt"), components |-> List(l),
               total_weight_grams |-> Num(200)]) :
             l \in CompleteLists \cup DefectiveLists}
    \cup {Obj(Restrict(f, K)) :
             f \in [garment_summary : {Str("Cotton T-shirt"), Null},
                    components : {List(<<Item("cotton")>>), List(<<>>), Null},
                    total_weight_grams : {Num(200), Null, Str("abc"), Str("12")}],
             K \in SUBSET AnalyzerSchemaKeys}

\* Replies of the text model.
EstimatorReplies ==
    {Garbage, Raises}
    \cup {Obj(f) :
             f \in [water_liters : {Num(2700), Str("12"), Str("abc"), Null},
                    co2_kg : {Num(7), Str("abc")},
                    energy_kwh : {Num(15), Null},
                    methodology_notes : {Str("LCA averages"), Null},
                    research_context : {Str("No live research")}]}
    \cup {Obj(Restrict([water_liters |-> Num(2700), co2_kg |-> Num(7),
                        energy_kwh |-> Num(15),
                        methodology_notes |-> Str("LCA averages"),
                        research_context |-> Str("No live research")], K)) :
             K \in {{}} \cup {EstimatorSchemaKeys \ {k} : k \in EstimatorSchemaKeys}}

\* What the search provider can answer: a result, or a fault.
ProviderOutputs == {Str("LCA: cotton 2700 L per shirt"), List(<<>>)}
ProviderOutcomes == {Ok(o) : o \in ProviderOutputs}
                    \cup {Fail(Err("search_fault", "ProviderError", "ProviderError"))}

\* Analyses a caller can hand to estimate() directly.
DirectAnalyses ==
    [garment_summary : {"Cotton T-shirt", ""},
     components : {<<>>, <<[name |-> "cotton", percentage |-> 100, weight_grams |-> 200]>>},
     total_weight_grams : {None, Some(200)}]

----------------------------------------------------------------------------
(* State machine *)

NoContext == "No additional context provided."

Init ==
    /\ settings \in Settings
    /\ sut = NoObject
    /\ ctor = NoCtor
    /\ pc = "Idle"
    /\ entry = "none"
    /\ fashion_analysis = None
    /\ research_query = None
    /\ research_result = None
    /\ calls = <<>>
    /\ replies = <<>>
    /\ network = 0
    /\ result = None
    /\ error = NoError
    /\ history = {}

\* The frame of a constructor call: no call is in progress and none starts.
CtorFrame ==
    UNCHANGED <<settings, pc, entry, fashion_analysis, research_query,
                research_result, calls, replies, network, result, error>>

\* A constructor's outcome: the new object replaces the one in use, a raised
\* exception leaves the caller with what it had.
Constructed(target, needs_credential, outcome) ==
    /\ pc = "Idle"
    /\ ctor' = [target |-> target, needs_credential |-> needs_credential,
                built |-> outcome.ok,
                raised |-> IF outcome.ok THEN NoError ELSE outcome.e]
    /\ sut' = IF outcome.ok THEN outcome.v ELSE sut
    /\ history' = IF outcome.ok THEN {} ELSE history
    /\ CtorFrame

ConstructSearchTool ==
    \E k \in TavilyKeys :
        Constructed("SustainabilityWebSearchTool", FALSE, Ok(WebSearchTool(k)))

ConstructAnalyzer ==
    \E llm \in LlmArgs :
        Constructed("FashionMaterialAnalyzer", ~llm.some, FashionMaterialAnalyzer(llm))

ConstructEstimator ==
    \E llm \in LlmArgs, tool \in SearchToolArgs :
        Constructed("SustainabilityEstimator", ~llm.some,
                    SustainabilityEstimator(llm, tool))

ConstructOrchestrator ==
    \E fa \in AnalyzerArgs, sa \in EstimatorArgs :
        Constructed("CollaborativeAgentOrchestrator", ~fa.some \/ ~sa.some,
                    CollaborativeAgentOrchestrator(fa, sa))

\* The search tool the current call uses.
SearchToolInUse ==
    CASE sut.class = "SustainabilityWebSearchTool" -> sut
      [] sut.class = "SustainabilityEstimator" -> sut.search_tool
      [] sut.class = "CollaborativeAgentOrchestrator" -> sut.sustainability_agent.search_tool

\* A failure that still hands the caller what was gathered so far.
Raise_PartialResult(e) ==
    /\ pc' = "Failed"
    /\ error' = e
    /\ result' = Some([fashion_analysis |-> fashion_analysis,
                       sustainability_estimates |-> None])

\* A call raises: the exception reaches the caller and nothing is returned.
Raise(e) ==
    /\ pc' = "Failed"
    /\ error' = e
    /\ result' = None

\* estimate() with the emptiness check left out.
EstimateBegin_NoCheck(analysis) ==
    /\ fashion_analysis' = Some(analysis)
    /\ research_query' = Some(BuildResearchQuery(analysis))
    /\ calls' = Append(calls, [kind |-> "search", arg |-> BuildResearchQuery(analysis)])
    /\ pc' = "LookingUpResearch"
    /\ UNCHANGED <<result, error>>

\* estimate() cutting analysis.components down to the dominant three in place
\* before it builds the query.
EstimateBegin_CutsInPlace(analysis) ==
    /\ fashion_analysis' = Some([analysis EXCEPT !.components = Take(@, 3)])
    /\ IF analysis.components = <<>>
       THEN /\ Raise(Err("empty_components", "ValueError", "ValueError"))
            /\ UNCHANGED <<research_query, calls>>
       ELSE /\ research_query' = Some(BuildResearchQuery(analysis))
            /\ calls' = Append(calls, [kind |-> "search",
                                       arg |-> BuildResearchQuery(analysis)])
            /\ pc' = "LookingUpResearch"
            /\ UNCHANGED <<result, error>>

\* estimate(analysis) up to its first collaborator call: the emptiness check,
\* then the query and the call of the search tool.
EstimateBegin(analysis) ==
    /\ fashion_analysis' = Some(analysis)
    /\ IF analysis.components = <<>>
       THEN /\ Raise(Err("empty_components", "ValueError", "ValueError"))
            /\ UNCHANGED <<research_query, calls>>
       ELSE /\ research_query' = Some(BuildResearchQuery(analysis))
            /\ calls' = Append(calls, [kind |-> "search",
                                       arg |-> BuildResearchQuery(analysis)])
            /\ pc' = "LookingUpResearch"
            /\ UNCHANGED <<result, error>>

\* orchestrator.run(image_reference, user_prompt=...): analyze() formats the
\* prompt and invokes the image model.
Run ==
    \E image_reference \in ImageReferences, user_prompt \in UserPrompts :
        /\ pc = "Idle"
        /\ sut.class = "CollaborativeAgentOrchestrator"
        /\ pc' = "ExtractingMaterials"
        /\ entry' = "run"
        /\ calls' = <<[kind |-> "image_model",
                       arg |-> [image_reference |-> image_reference,
                                user_context |-> IF user_prompt = "" THEN NoContext
                                                 ELSE user_prompt]]>>
        /\ ctor' = NoCtor
        /\ UNCHANGED <<settings, sut, fashion_analysis, research_query,
                       research_result, replies, network, result, error, history>>

\* The image model answers: analyze() parses the reply and returns or raises;
\* on return run() calls estimate() with the analysis.
ExtractReturnOf(Replies) ==
    \E reply \in Replies :
        /\ pc = "ExtractingMaterials"
        /\ replies' = Append(replies, reply)
        /\ LET a == Analyze(reply)
           IN  IF a.ok
               THEN EstimateBegin(a.v)
               ELSE /\ Raise(a.e)
                    /\ UNCHANGED <<fashion_analysis, research_query, calls>>
        /\ UNCHANGED <<settings, sut, ctor, entry, research_result, network, history>>

ExtractReturn == ExtractReturnOf(AnalyzerReplies)

\* estimator.estimate(analysis) called directly.
CallEstimate ==
    \E analysis \in DirectAnalyses :
        /\ pc = "Idle"
        /\ sut.class = "SustainabilityEstimator"
        /\ entry' = "estimate"
        /\ ctor' = NoCtor
        /\ EstimateBegin(analysis)
        /\ UNCHANGED <<settings, sut, research_result, replies, network, history>>

\* search_tool.run(query) called directly.
CallSearch ==
    \E query \in Queries :
        /\ pc = "Idle"
        /\ sut.class = "SustainabilityWebSearchTool"
        /\ entry' = "search"
        /\ ctor' = NoCtor
        /\ research_query' = Some(query)
        /\ calls' = <<[kind |-> "search", arg |-> query]>>
        /\ pc' = "LookingUpResearch"
        /\ UNCHANGED <<settings, sut, fashion_analysis, research_result, replies,
                       network, result, error, history>>

\* The search tool runs: the fallback answers locally, the provider tool
\* makes one request and returns its output or lets its fault through.  In
\* estimate() the result goes into the prompt of the text model.
SearchReturn ==
    \E outcome \in ProviderOutcomes :
        /\ pc = "LookingUpResearch"
        /\ LET tool == SearchToolInUse
               local == tool.tool = "disabled_web_search"
               r == WebSearchResult(tool, research_query.v,
                                    IF outcome.ok THEN outcome.v ELSE Null)
           IN  /\ network' = IF local THEN network ELSE network + 1
               /\ replies' = Append(replies, IF local THEN Ok(Str(DisabledAdvisory))
                                              ELSE outcome)
               /\ IF ~local /\ ~outcome.ok
                  THEN /\ Raise(outcome.e)
                       /\ UNCHANGED <<research_result, calls>>
                  ELSE /\ research_result' = Some(r)
                       /\ IF entry = "search"
                          THEN /\ pc' = "Done"
                               /\ result' = Some(r)
                               /\ UNCHANGED <<calls, error>>
                          ELSE /\ pc' = "EstimatingImpact"
                               /\ calls' = Append(calls,
                                      [kind |-> "text_model",
                                       arg |-> [analysis_json |->
                                                    AnalysisJson(fashion_analysis.v),
                                                research_notes |-> r.raw_output]])
                               /\ UNCHANGED <<result, error>>
        /\ UNCHANGED <<settings, sut, ctor, entry, fashion_analysis, research_query,
                       history>>

\* estimate() asking the text model again when its reply does not parse.
EstimateReturn_Retry ==
    \E reply \in EstimatorReplies :
        /\ pc = "EstimatingImpact"
        /\ Len(calls) < 5
        /\ replies' = Append(replies, reply)
        /\ LET e == Estimates(reply)
           IN  IF e.ok
               THEN /\ pc' = "Done"
                    /\ result' = IF entry = "run"
                                 THEN Some(OrchestratedResponse(fashion_analysis.v, e.v))
                                 ELSE Some(e.v)
                    /\ UNCHANGED <<error, calls>>
               ELSE /\ calls' = Append(calls, calls[Len(calls)])
                    /\ UNCHANGED <<pc, result, error>>
        /\ UNCHANGED <<settings, sut, ctor, entry, fashion_analysis, research_query,
                       research_result, network, history>>

\* The text model answers: estimate() parses the reply and returns or raises;
\* on return run() wraps both records.
EstimateReturnOf(Replies) ==
    \E reply \in Replies :
        /\ pc = "EstimatingImpact"
        /\ replies' = Append(replies, reply)
        /\ LET e == Estimates(reply)
           IN  IF e.ok
               THEN /\ pc' = "Done"
                    /\ result' = IF entry = "run"
                                 THEN Some(OrchestratedResponse(fashion_analysis.v, e.v))
                                 ELSE Some(e.v)
                    /\ UNCHANGED error
               ELSE Raise(e.e)
        /\ UNCHANGED <<settings, sut, ctor, entry, fashion_analysis, research_query,
                       research_result, calls, network, history>>

EstimateReturn == EstimateReturnOf(EstimatorReplies)

\* The caller has its answer; the call's locals are gone.
ReturnToCaller ==
    /\ pc \in {"Done", "Failed"}
    /\ pc' = "Idle"
    /\ entry' = "none"
    /\ fashion_analysis' = None
    /\ research_query' = None
    /\ research_result' = None
    /\ calls' = <<>>
    /\ replies' = <<>>
    /\ network' = 0
    /\ result' = None
    /\ error' = NoError
    /\ UNCHANGED <<settings, sut, ctor>>

Return == ReturnToCaller /\ UNCHANGED history

Next ==
    \/ ConstructSearchTool
    \/ ConstructAnalyzer
    \/ ConstructEstimator
    \/ ConstructOrchestrator
    \/ Run
    \/ ExtractReturn
    \/ CallEstimate
    \/ CallSearch
    \/ SearchReturn
    \/ EstimateReturn
    \/ Return

Spec == Init /\ [][Next]_vars

----------------------------------------------------------------------------
(* Repeated runs of one orchestrator against mocked collaborators *)

MaxRuns == 3

MockedAnalyzerReplies ==
    {Garbage,
     Obj([garment_summary |-> Str("Cotton T-shirt"),
          components |-> List(<<Item("cotton")>>),
          total_weight_grams |-> Num(200)])}

MockedEstimatorReplies ==
    {Obj([water_liters |-> Num(2700), co2_kg |-> Num(7), energy_kwh |-> Num(15),
          methodology_notes |-> Str("LCA averages"),
          research_context |-> Str("No live research")]),
     Obj([water_liters |-> Str("abc"), co2_kg |-> Num(7), energy_kwh |-> Num(15),
          methodology_notes |-> Str("LCA averages"),
          research_context |-> Str("No live research")])}

\* What a finished run gave its caller: the serialized response (main.py
\* calls to_dict on it) or the exception.
RunOutcome == IF pc = "Done" THEN Ok(ToDict(result.v)) ELSE Fail(error)

\* The arguments and mocked replies of the run, with what it gave.
RunRecord == [outcome |-> RunOutcome, inputs |-> calls[1].arg, mocks |-> replies]

\* The orchestrator is built from injected agents, as a test does.
InitMocked == Init /\ settings.openai_api_key = None

RunAgain == Cardinality(history) < MaxRuns /\ Run

ExtractReturnMocked == ExtractReturnOf(MockedAnalyzerReplies)

EstimateReturnMocked == EstimateReturnOf(MockedEstimatorReplies)

ReturnRecorded ==
    /\ entry = "run"
    /\ ReturnToCaller
    /\ history' = history \cup {RunRecord}

NextMocked ==
    \/ ConstructOrchestrator
    \/ RunAgain
    \/ ExtractReturnMocked
    \/ SearchReturn
    \/ EstimateReturnMocked
    \/ ReturnRecorded

SpecRepeat == InitMocked /\ [][NextMocked]_vars

----------------------------------------------------------------------------
(* Properties *)

CallKinds == [i \in 1..Len(calls) |-> calls[i].kind]
IsPrefix(s, t) == Len(s) <= Len(t) /\ SubSeq(t, 1, Len(s)) = s
RunCallOrder == <<"image_model", "search", "text_model">>
CountKind(k) == Cardinality({i \in 1..Len(calls) : calls[i].kind = k})

RunTransitions ==
    {<<"Idle", "ExtractingMaterials">>,
     <<"ExtractingMaterials", "LookingUpResearch">>, <<"ExtractingMaterials", "Failed">>,
     <<"LookingUpResearch", "EstimatingImpact">>, <<"LookingUpResearch", "Failed">>,
     <<"EstimatingImpact", "Done">>, <<"EstimatingImpact", "Failed">>}

C1_CallsInOrder ==
    entry = "run" =>
        /\ IsPrefix(CallKinds, RunCallOrder)
        /\ Len(replies) <= Len(calls)
        /\ Len(calls) >= 2 => Analyze(replies[1]).ok
        /\ Len(calls) >= 3 => replies[2].ok
        /\ pc = "ExtractingMaterials" => Len(calls) = 1 /\ Len(replies) = 0
        /\ pc = "LookingUpResearch" => Len(calls) = 2 /\ Len(replies) = 1
        /\ pc = "EstimatingImpact" => Len(calls) = 3 /\ Len(replies) = 2
        /\ pc = "Done" => Len(calls) = 3 /\ Len(replies) = 3

C1_RunStep == entry' = "run" /\ pc' # pc => <<pc, pc'>> \in RunTransitions

\* C1: in a run the collaborators are called in the order image model, search,
\* text model, each at most once, each only after the one before it returned
\* successfully, and the run moves Idle -> ExtractingMaterials ->
\* LookingUpResearch -> EstimatingImpact -> Done (or to Failed).
C1_FixedCallOrder == []C1_CallsInOrder /\ [][C1_RunStep]_vars

C1_Witness == entry = "run" /\ pc = "Done" /\ CallKinds = RunCallOrder

C2_AllOrNothing ==
    entry = "run" =>
        /\ result.some <=> pc = "Done"
        /\ pc = "Done" =>
              /\ error = NoError
              /\ Len(replies) = 3
              /\ Analyze(replies[1]).ok /\ replies[2].ok /\ Estimates(replies[3]).ok
        /\ pc = "Failed" =>
              /\ error # NoError
              /\ ~Analyze(replies[1]).ok =>
                    /\ CallKinds = <<"image_model">>
                    /\ fashion_analysis = None /\ research_result = None /\ network = 0
              /\ (Analyze(replies[1]).ok /\ Analyze(replies[1]).v.components = <<>>) =>
                    CallKinds = <<"image_model">> /\ network = 0
              /\ (Len(replies) = 2 /\ ~replies[2].ok) =>
                    CallKinds = <<"image_model", "search">>

C2_FailedIsTerminal == pc = "Failed" => pc' \in {"Failed", "Idle"} /\ ~result'.some

\* C2: a run returns a combined result only when extraction and estimation
\* both succeeded; a failing step ends the run in Failed, nothing after it is
\* executed, and nothing is returned.
C2_ResultOnlyOnFullSuccess == []C2_AllOrNothing /\ [][C2_FailedIsTerminal]_vars

C2_Witness ==
    /\ entry = "run" /\ pc = "Failed"
    /\ error.cause = "unparseable"
    /\ CallKinds = <<"image_model">>

\* C3: estimate() given an analysis without components raises ValueError
\* before the search tool or the text model has been called, whatever the
\* summary and the total weight.
C3_EmptyComponentsRejectedFirst ==
    (entry \in {"run", "estimate"} /\ fashion_analysis.some
        /\ fashion_analysis.v.components = <<>>) =>
            /\ pc = "Failed"
            /\ error = Err("empty_components", "ValueError", "ValueError")
            /\ CountKind("search") = 0 /\ CountKind("text_model") = 0
            /\ network = 0
            /\ research_query = None /\ research_result = None
            /\ ~result.some

C3_Witness ==
    /\ entry = "estimate" /\ pc = "Failed"
    /\ fashion_analysis.some
    /\ fashion_analysis.v.components = <<>>
    /\ fashion_analysis.v.garment_summary = "Cotton T-shirt"
    /\ fashion_analysis.v.total_weight_grams = Some(200)
    /\ calls = <<>>

RECURSIVE Distinct(_)
\* The names of a sequence with later repetitions dropped.
Distinct(seq) ==
    IF seq = <<>> THEN <<>>
    ELSE LET init == Distinct(SubSeq(seq, 1, Len(seq) - 1))
             last == seq[Len(seq)]
         IN  IF \E i \in 1..Len(init) : init[i] = last THEN init ELSE Append(init, last)

AnalysisNames ==
    [i \in 1..Len(fashion_analysis.v.components) |-> fashion_analysis.v.components[i].name]

QueryIssued ==
    /\ entry \in {"run", "estimate"}
    /\ fashion_analysis.some
    /\ fashion_analysis.v.components # <<>>

\* C4 as stated: the query names at most the first three distinct component
\* names.
C4_QueryOfDistinctNames ==
    QueryIssued =>
        /\ CountKind("search") = 1
        /\ research_query = Some(QueryPrefix \o Join(Take(Distinct(AnalysisNames), 3), ", "))

\* The query spelled out for one, two and three or more components.
ExpectedQuery(names) ==
    CASE Len(names) = 1 -> QueryPrefix \o names[1]
      [] Len(names) = 2 -> QueryPrefix \o names[1] \o ", " \o names[2]
      [] OTHER -> QueryPrefix \o names[1] \o ", " \o names[2] \o ", " \o names[3]

\* C4 amended: estimate() issues exactly one query, the fixed prefix followed
\* by the names of the first three components (fewer when there are fewer) in
\* their order, repeated names kept, joined by ", ".
C4_QueryOfFirstThreeNames ==
    QueryIssued =>
        /\ CountKind("search") = 1
        /\ research_query = Some(ExpectedQuery(AnalysisNames))
        /\ calls[Len(calls) - (IF CountKind("text_model") = 1 THEN 1 ELSE 0)].arg
               = ExpectedQuery(AnalysisNames)
        /\ AnalysisNames = <<"cotton">> =>
               research_query.v
                   = "Lifecycle assessment water CO2 energy consumption for cotton"

C4_Witness ==
    /\ entry = "run" /\ pc = "Done"
    /\ AnalysisNames = <<"cotton", "cotton", "wool", "wool">>
    /\ research_query.v
           = "Lifecycle assessment water CO2 energy consumption for cotton, cotton, wool"

\* The exceptions that have reached a caller: from a constructor or a call.
Surfaced == {e \in {error, ctor.raised} : e # NoError}

FourCauses == {"missing_credential", "unparseable", "empty_components", "search_fault"}

\* The exception class the code raises for each of the four causes.
KindRaisedFor(cause) ==
    CASE cause = "missing_credential" -> MissingCredential.kind
      [] cause = "unparseable" ->
             WrapParseFailure(ParserParse(AnalyzerSchemaKeys, Garbage).e).kind
      [] cause = "empty_components" -> "ValueError"
      [] cause = "search_fault" -> "ProviderError"

\* C5 as stated: the four causes reach the caller as four different kinds,
\* and no exception of a lower layer is caught or re-wrapped on the way.
C5_FourDistinctKindsNeverWrapped ==
    \A e \in Surfaced :
        e.cause \in FourCauses =>
            /\ e.kind = e.origin
            /\ \A c \in FourCauses \ {e.cause} : KindRaisedFor(c) # e.kind

\* The exception the failing component of a run raised.
RaisedInRun ==
    IF ~Analyze(replies[1]).ok THEN Analyze(replies[1]).e
    ELSE IF Analyze(replies[1]).v.components = <<>>
         THEN Err("empty_components", "ValueError", "ValueError")
    ELSE IF ~replies[2].ok THEN replies[2].e
    ELSE Estimates(replies[3]).e

\* C5 amended: run() hands its caller the exception exactly as the failing
\* component raised it; a missing credential and an unparseable reply both
\* surface as RuntimeError (the parser's OutputParserException is re-wrapped
\* by the step that parses, the only re-wrapping there is), zero components
\* as ValueError, a search provider fault as the provider's own exception.
C5_KindsAsRaised ==
    /\ \A e \in Surfaced :
          /\ e.cause = "missing_credential" =>
                e.kind = "RuntimeError" /\ e.origin = "RuntimeError"
          /\ e.cause = "unparseable" =>
                e.kind = "RuntimeError" /\ e.origin = "OutputParserException"
          /\ e.cause = "empty_components" =>
                e.kind = "ValueError" /\ e.origin = "ValueError"
          /\ e.cause = "search_fault" =>
                e.kind = "ProviderError" /\ e.origin = "ProviderError"
          /\ e.cause # "unparseable" => e.kind = e.origin
    /\ (entry = "run" /\ pc = "Failed") => error = RaisedInRun

C5_Witness ==
    /\ entry = "run" /\ pc = "Failed"
    /\ Len(replies) = 3
    /\ error = Err("unparseable", "OutputParserException", "RuntimeError")

HasSearchTool ==
    sut.class \in {"SustainabilityWebSearchTool", "SustainabilityEstimator",
                   "CollaborativeAgentOrchestrator"}

C6_FallbackAnswersLocally ==
    (HasSearchTool /\ SearchToolInUse.tavily_api_key \in {None, Some("")}) =>
        /\ SearchToolInUse.tool = "disabled_web_search"
        /\ network = 0
        /\ research_result.some =>
              research_result.v = [query |-> research_query.v,
                                   raw_output |-> DisabledAdvisory]
        /\ (entry = "search" /\ pc = "Done") => result = research_result
        /\ (entry = "search" /\ pc # "Idle") => pc \in {"LookingUpResearch", "Done"}

C6_VariantFixedDuringCalls == (pc # "Idle" \/ pc' # "Idle") => sut' = sut

\* C6: a search tool built without a credential (None or "") answers every
\* query with the fixed advisory text and the query it was given, makes no
\* request to the provider, and keeps the variant chosen at construction.
C6_DisabledSearch == []C6_FallbackAnswersLocally /\ [][C6_VariantFixedDuringCalls]_vars

C6_Witness ==
    /\ entry = "search" /\ pc = "Done"
    /\ sut.tavily_api_key = Some("")
    /\ result = Some([query |-> "anything", raw_output |-> DisabledAdvisory])
    /\ network = 0

ModelUsers ==
    {"FashionMaterialAnalyzer", "SustainabilityEstimator", "CollaborativeAgentOrchestrator"}

C9_CredentialCheckedAtConstruction ==
    /\ (ctor.target \in ModelUsers /\ ctor.needs_credential
            /\ settings.openai_api_key \in {None, Some("")}) =>
          /\ ~ctor.built
          /\ ctor.raised = Err("missing_credential", "RuntimeError", "RuntimeError")
    /\ ~ctor.built =>
          /\ ctor.needs_credential /\ settings.openai_api_key \in {None, Some("")}
          /\ pc = "Idle" /\ calls = <<>> /\ network = 0
    /\ (ctor.target # "none" /\ ctor.built) =>
          /\ sut.class = ctor.target
          /\ (settings.tavily_api_key \in {None, Some("")}
                /\ ctor.target = "SustainabilityEstimator"
                /\ sut.search_tool.tavily_api_key = settings.tavily_api_key) =>
                    sut.search_tool.tool = "disabled_web_search"
    /\ ctor.target = "SustainabilityWebSearchTool" => ctor.built

C9_FailedConstructionYieldsNothing ==
    (~ctor'.built /\ ctor' # ctor) => sut' = sut /\ pc' = "Idle" /\ calls' = <<>>

\* C9: building the analyzer, the estimator or the orchestrator without an
\* injected client and without the model credential raises RuntimeError
\* before anything is called and yields no object; a missing search
\* credential lets construction succeed with the fallback tool.
C9_MissingCredentialIsFatal ==
    []C9_CredentialCheckedAtConstruction /\ [][C9_FailedConstructionYieldsNothing]_vars

C9_Witness ==
    /\ ctor.target = "CollaborativeAgentOrchestrator"
    /\ ~ctor.built
    /\ settings.openai_api_key = Some("")
    /\ sut = NoObject

\* The reply of the text model, once it has answered.
TextModelAnswered ==
    /\ Len(calls) >= 1 /\ Len(replies) = Len(calls)
    /\ calls[Len(calls)].kind = "text_model"
TextModelReply == replies[Len(replies)]
ImageModelAnswered == entry = "run" /\ Len(replies) >= 1
ImageModelReply == replies[1]

\* A reply in which every field that is present has its documented type.
WellTypedItem(item) ==
    /\ item.t = "obj"
    /\ "name" \in DOMAIN item.v => item.v.name.t = "str"
    /\ "percentage" \in DOMAIN item.v => item.v.percentage.t = "num"
    /\ "weight_grams" \in DOMAIN item.v => item.v.weight_grams.t = "num"
WellTypedAnalysisReply(r) ==
    /\ r.t = "obj"
    /\ "garment_summary" \in DOMAIN r.v => r.v.garment_summary.t = "str"
    /\ "components" \in DOMAIN r.v =>
          /\ r.v.components.t = "list"
          /\ \A i \in 1..Len(r.v.components.v) : WellTypedItem(r.v.components.v[i])
    /\ "total_weight_grams" \in DOMAIN r.v => r.v.total_weight_grams.t \in {"num", "null"}
WellTypedEstimateReply(r) ==
    /\ r.t = "obj"
    /\ \A key \in {"water_liters", "co2_kg", "energy_kwh"} \cap DOMAIN r.v :
          r.v[key].t = "num"
    /\ \A key \in {"methodology_notes", "research_context"} \cap DOMAIN r.v :
          r.v[key].t = "str"

\* The value of a field, or the documented default when the field is absent.
FieldOr(obj, key, default) == IF key \in DOMAIN obj THEN obj[key].v ELSE default

EstimatesReturned == IF entry = "run" THEN result.v.sustainability_estimates ELSE result.v

NotANumber(x) == x.t = "null" \/ (x.t = "str" /\ x.v \notin DOMAIN NumericStrings)

\* A reply that does not parse into the expected structure: no JSON at all,
\* or a numeric field that holds no number.
UnparseableAnalysisReply(r) ==
    \/ r.t = "text"
    \/ /\ r.t = "obj"
       /\ \/ /\ "components" \in DOMAIN r.v
             /\ r.v.components.t = "list"
             /\ \E i \in 1..Len(r.v.components.v) :
                   LET item == r.v.components.v[i]
                   IN  /\ item.t = "obj"
                       /\ \E key \in {"percentage", "weight_grams"} \cap DOMAIN item.v :
                              NotANumber(item.v[key])
          \/ /\ "total_weight_grams" \in DOMAIN r.v
             /\ r.v.total_weight_grams.t = "str"
             /\ NotANumber(r.v.total_weight_grams)
UnparseableEstimateReply(r) ==
    \/ r.t = "text"
    \/ /\ r.t = "obj"
       /\ \E key \in {"water_liters", "co2_kg", "energy_kwh"} \cap DOMAIN r.v :
              NotANumber(r.v[key])

\* The exception both steps raise for a reply the parser rejects.
ResponseFormatError == Err("unparseable", "OutputParserException", "RuntimeError")

\* C8: a reply that cannot be parsed into the expected structure, a numeric
\* field of another type included, makes the step raise the parse-failure
\* RuntimeError; the model is not asked again and no record is returned.
C8_UnparseableRepliesRaiseFormatError ==
    /\ (ImageModelAnswered /\ UnparseableAnalysisReply(ImageModelReply)) =>
          /\ pc = "Failed"
          /\ error = ResponseFormatError
          /\ CallKinds = <<"image_model">>
          /\ fashion_analysis = None /\ ~result.some
    /\ (TextModelAnswered /\ UnparseableEstimateReply(TextModelReply)) =>
          /\ pc = "Failed"
          /\ error = ResponseFormatError
          /\ CountKind("text_model") = 1
          /\ ~result.some

\* C10: runs of one orchestrator with the same arguments and the same mocked
\* replies give the same serialized response (or the same exception),
\* whatever ran before and in whatever order.
C10_SameInputsSameSerialization ==
    /\ \A h1, h2 \in history :
          (h1.inputs = h2.inputs /\ h1.mocks = h2.mocks) => h1.outcome = h2.outcome
    /\ (entry = "run" /\ pc \in {"Done", "Failed"}) =>
          \A h \in history :
              (h.inputs = RunRecord.inputs /\ h.mocks = RunRecord.mocks) =>
                  h.outcome = RunRecord.outcome

C10_Witness ==
    /\ entry = "run" /\ pc = "Done"
    /\ \E h \in history :
          /\ h.inputs = RunRecord.inputs /\ h.mocks = RunRecord.mocks
          /\ h.outcome.ok /\ h.outcome = RunRecord.outcome
    /\ \E h \in history : ~h.outcome.ok

\* The record analyze() returned in this run.
ExtractedAnalysis == Analyze(ImageModelReply).v

\* The analysis is the extracted record at every point of the run: in run()'s
\* local and estimate()'s parameter, in the dict estimate() hands to the text
\* model, in the response, and, component by component, in to_dict's output.
C11_AnalysisIsTheExtractedRecord ==
    entry = "run" =>
        /\ fashion_analysis.some => fashion_analysis.v = ExtractedAnalysis
        /\ Len(calls) >= 3 =>
              /\ calls[3].arg.analysis_json = AnalysisJson(ExtractedAnalysis)
              /\ calls[2].arg = BuildResearchQuery(ExtractedAnalysis)
        /\ pc = "Done" =>
              /\ result.v.fashion_analysis = ExtractedAnalysis
              /\ LET emitted == ToDict(result.v).fashion_analysis.components
                 IN  /\ Len(emitted) = Len(ExtractedAnalysis.components)
                     /\ \A i \in 1..Len(emitted) :
                            /\ emitted[i].name = ExtractedAnalysis.components[i].name
                            /\ emitted[i].percentage =
                                   ExtractedAnalysis.components[i].percentage
                            /\ emitted[i].weight_grams =
                                   ExtractedAnalysis.components[i].weight_grams

\* No step of estimate() (query, search, model call, parsing) and no step of
\* run() changes the analysis it was given, whether estimate() is called by
\* run() or directly.
C11_EstimateLeavesAnalysisAlone ==
    (fashion_analysis.some /\ pc' # "Idle") => fashion_analysis' = fashion_analysis

\* C11: on a successful run the analysis in the response is exactly the record
\* the extraction step returned and the estimation step received, components
\* in the same order; estimation does not modify it and to_dict emits the
\* components in that order.
C11_AnalysisPassedThroughUnchanged ==
    []C11_AnalysisIsTheExtractedRecord /\ [][C11_EstimateLeavesAnalysisAlone]_vars

C11_Witness ==
    /\ entry = "run" /\ pc = "Done"
    /\ Len(result.v.fashion_analysis.components) = MaxComponents
    /\ result.v.fashion_analysis.components[1].name
           # result.v.fashion_analysis.components[2].name

====
